---- MODULE Spec2Model ----
(***************************************************************************)
(* Fantasy Football Assistant (Streamlit app): the list parser, the two    *)
(* API helpers and the "Analyze my week" button handler, as a state        *)
(* machine.  A text is a sequence of one-character strings; a player name  *)
(* is a text.                                                              *)
(***************************************************************************)
EXTENDS Integers, Sequences, FiniteSets, TLC

VARIABLES
    \* configuration read from the environment at startup (lines 13-15)
    OPENAI_API_KEY, GOOGLE_CSE_ID, GOOGLE_API_KEY,
    \* the form's widgets (lines 69-108)
    use_ai, use_google, starters_txt, bench_txt, fa_txt, trade_targets_txt, notes,
    \* the handler's position and its locals (lines 110-181)
    pc, starters, bench, free_agents, trade_targets,
    names_for_news, idx, snippets, user_payload, analysis,
    \* what the page shows: the inline error, the results text, the download
    error_shown, results_shown, export,
    \* the outside world: calls issued to and answered by the two services
    searchLog, resultLog, netLog, lastOutcome, faults,
    completionIssued, completionLog,
    \* the parser exercised on its own
    txt, parsed, rejoined, reparsed, ppc

appVars == <<OPENAI_API_KEY, GOOGLE_CSE_ID, GOOGLE_API_KEY,
             use_ai, use_google, starters_txt, bench_txt, fa_txt,
             trade_targets_txt, notes,
             pc, starters, bench, free_agents, trade_targets,
             names_for_news, idx, snippets, user_payload, analysis,
             error_shown, results_shown, export,
             searchLog, resultLog, netLog, lastOutcome, faults,
             completionIssued, completionLog>>

parseVars == <<txt, parsed, rejoined, reparsed, ppc>>

vars == <<appVars, parseVars>>

----------------------------------------------------------------------------
(* Bounds of the model *)

\* longest text handed to the parser when it is exercised on its own
MaxLen == 4
\* names in the largest starters, bench, trade-target and free-agent texts
MaxStarters == 9
MaxBench == 8
MaxTargets == 8
MaxFA == 13
\* search calls of one request that the service may fail or answer empty
MaxFaults == 1

----------------------------------------------------------------------------
(* Texts *)

Min(a, b) == IF a <= b THEN a ELSE b

\* the characters str.strip removes (str.isspace)
Whitespace == {" ", "\t", "\n", "\r"}

\* the line boundaries str.splitlines breaks at
LineBreaks == {"\n", "\r"}

\* index of the first character of s that is in S, 0 when there is none
FirstIn(s, S) ==
    LET I == {i \in 1..Len(s) : s[i] \in S}
    IN  IF I = {} THEN 0 ELSE CHOOSE i \in I : \A j \in I : i <= j

\* index of the first character of s that is not in S, 0 when there is none
FirstNotIn(s, S) ==
    LET I == {i \in 1..Len(s) : s[i] \notin S}
    IN  IF I = {} THEN 0 ELSE CHOOSE i \in I : \A j \in I : i <= j

\* index of the last character of s that is not in S, 0 when there is none
LastNotIn(s, S) ==
    LET I == {i \in 1..Len(s) : s[i] \notin S}
    IN  IF I = {} THEN 0 ELSE CHOOSE i \in I : \A j \in I : j <= i

\* str.splitlines(): no trailing empty line, "\r\n" is one boundary
RECURSIVE splitlines(_)
splitlines(s) ==
    IF s = <<>> THEN <<>>
    ELSE LET brk == FirstIn(s, LineBreaks)
         IN  IF brk = 0 THEN <<s>>
             ELSE LET last == IF s[brk] = "\r" /\ brk < Len(s) /\ s[brk + 1] = "\n"
                              THEN brk + 1 ELSE brk
                  IN  <<SubSeq(s, 1, brk - 1)>>
                          \o splitlines(SubSeq(s, last + 1, Len(s)))

\* str.replace(old, new) for single characters
replace(s, old, new) == [i \in 1..Len(s) |-> IF s[i] = old THEN new ELSE s[i]]

\* str.split(sep): always at least one field
RECURSIVE split(_, _)
split(s, sep) ==
    LET k == FirstIn(s, {sep})
    IN  IF k = 0 THEN <<s>>
        ELSE <<SubSeq(s, 1, k - 1)>> \o split(SubSeq(s, k + 1, Len(s)), sep)

\* a mutant of strip: leading whitespace only (str.lstrip)
strip_leading_only(s) ==
    LET a == FirstNotIn(s, Whitespace)
    IN  IF a = 0 THEN <<>> ELSE SubSeq(s, a, Len(s))

\* str.strip()
strip(s) ==
    LET a == FirstNotIn(s, Whitespace)
        b == LastNotIn(s, Whitespace)
    IN  IF a = 0 THEN <<>> ELSE SubSeq(s, a, b)

\* concatenation of a sequence of sequences
RECURSIVE Flatten(_)
Flatten(ss) == IF ss = <<>> THEN <<>> ELSE Head(ss) \o Flatten(Tail(ss))

\* sep.join(parts)
RECURSIVE join(_, _)
join(parts, sep) ==
    IF parts = <<>> THEN <<>>
    ELSE IF Len(parts) = 1 THEN parts[1]
    ELSE parts[1] \o <<sep>> \o join(Tail(parts), sep)

NonEmpty(p) == p # <<>>

\* the fields of every line, in order: for chunk in ... for p in ...
Fields(s) ==
    LET lines == splitlines(s)
    IN  Flatten([i \in 1..Len(lines) |-> split(replace(lines[i], ";", ","), ",")])

\* a mutant of parse_pasted_list: the empty fields are dropped before the
\* fields are stripped
parse_filter_before_strip(s) ==
    IF s = <<>> THEN <<>>
    ELSE LET kept == SelectSeq(Fields(s), NonEmpty)
         IN  [i \in 1..Len(kept) |-> strip(kept[i])]

\* parse_pasted_list (lines 55-59)
parse_pasted_list(s) ==
    IF s = <<>> THEN <<>>
    ELSE LET fields == Fields(s)
             parts == [i \in 1..Len(fields) |-> strip(fields[i])]
         IN  SelectSeq(parts, NonEmpty)

----------------------------------------------------------------------------
(* What the user types into the form *)

Letters == <<"a", "b", "c", "d", "e", "f", "g", "h", "i", "j", "k", "l", "m",
             "n", "o", "p", "q", "r", "s", "t", "u", "v", "w", "x", "y", "z">>

\* the k-th player name, two letters
PlayerName(k) == <<Letters[(k \div 26) + 1], Letters[(k % 26) + 1]>>

\* n consecutive player names
Roster(first, n) == [i \in 1..n |-> PlayerName(first + i - 1)]

\* the names typed one after the other with the text sepText in between
RECURSIVE Typed(_, _)
Typed(names, sepText) ==
    IF names = <<>> THEN <<>>
    ELSE IF Len(names) = 1 THEN names[1]
    ELSE names[1] \o sepText \o Typed(Tail(names), sepText)

\* starters: nothing, separators only, one name with a space inside, a
\* comma-and-space separated list
StartersTexts ==
    { <<>>,
      <<" ", ",", ";", "\n", " ">>,
      <<" ", "q", "b", " ", "b", "o", "\n">>,
      Typed(Roster(0, MaxStarters), <<",", " ">>) }

\* bench: nothing, or the starters' first names again, one per line
BenchTexts ==
    { <<>>,
      Typed(Roster(0, MaxBench), <<"\n">>) \o <<"\n">> }

\* trade targets: nothing, or names between runs of mixed separators
TargetTexts ==
    { <<>>,
      <<";">> \o Typed(Roster(200, MaxTargets), <<" ", ";", ",", "\r", "\n">>) }

\* free agents: nothing, or a comma separated list with a trailing comma
FATexts ==
    { <<>>,
      Typed(Roster(300, MaxFA), <<",">>) \o <<",">> }

NotesTexts == { <<>>, <<"b", "y", "e">> }

\* a credential is unset ("") or set
Credentials == {"", "key"}

----------------------------------------------------------------------------
(* The two services *)

\* how the search service answers a call: result items, a response without
\* items, or an exception (network error, malformed response)
SearchOutcomes == {"ok", "empty", "error"}

\* how the completion endpoint answers: a text, or an exception
AIOutcomes ==
    { [ok |-> TRUE, text |-> "START/SIT: keep your starters."],
      [ok |-> FALSE, text |-> "quota exceeded"] }

\* values of int(time.time()) when the report is built
Timestamps == {1762000000, 1762000060}

\* the items of a successful search response; seq tells the responses apart
Items(query, seq, num) ==
    [k \in 1..num |-> [title |-> query, link |-> seq, snippet |-> k]]

----------------------------------------------------------------------------
(* Program constants *)

\* names_for_news keeps the positions i < 25 (line 123)
NewsCap == 25
\* free_agents[:10] (line 122)
FreeAgentCap == 10
\* google_news_snippets(name, num=2) (line 126)
SnippetNum == 2
\* the slider's and the number input's values (lines 72-73)
risk_tolerance == 5
week == 1
scoring == "Half-PPR"

\* the two placeholder texts (lines 39 and 163-164), with "--", "*" and
\* "..." for the dash, the bullets and the ellipses of the source
DisabledPlaceholder == "(AI disabled -- add OPENAI_API_KEY to enable analysis.)"

ManualTemplate ==
    "(AI disabled) Use the sections below as a template for manual notes.\n\n* START/SIT: ...\n* WAIVERS: ...\n* TRADES: ...\n* WATCHLIST: ..."

StartersError == "Add at least a few starters to analyze."

NoText == ""

----------------------------------------------------------------------------
(* The helpers *)

\* xs[:n]
Take(xs, n) == SubSeq(xs, 1, Min(n, Len(xs)))

\* [n for i, n in enumerate(xs) if n and i < 25], from the 1-based position i
RECURSIVE EnumFilter(_, _)
EnumFilter(xs, i) ==
    IF i > Len(xs) THEN <<>>
    ELSE (IF xs[i] # <<>> /\ i - 1 < NewsCap THEN <<xs[i]>> ELSE <<>>)
             \o EnumFilter(xs, i + 1)

\* a mutant of NamesForNews: the test i < 25 is missing
names_uncapped(s, b, t, f) ==
    SelectSeq(s \o b \o t \o Take(f, FreeAgentCap), NonEmpty)

\* names_for_news (lines 122-123)
NamesForNews(s, b, t, f) ==
    EnumFilter(s \o b \o t \o Take(f, FreeAgentCap), 1)

\* a mutant of Put: an existing entry is kept (dict.setdefault)
put_keep_first(m, k, v) ==
    IF k \in DOMAIN m THEN m
    ELSE [n \in DOMAIN m \cup {k} |-> IF n = k THEN v ELSE m[n]]

\* m[k] = v on a dict
Put(m, k, v) == [n \in DOMAIN m \cup {k} |-> IF n = k THEN v ELSE m[n]]

\* a mutant of search_skips: `or` for `and` between the two credentials
search_skips_unless_both_unset(query) ==
    ~(GOOGLE_CSE_ID # "" \/ GOOGLE_API_KEY # "") \/ query = <<>>

\* google_news_snippets returns [] without calling the service (lines 20-21)
search_skips(query) ==
    ~(GOOGLE_CSE_ID # "" /\ GOOGLE_API_KEY # "") \/ query = <<>>

\* a mutant of search_returns: no except clause, the exception propagates
search_returns_uncaught(outcome, query, seq, num) ==
    [raised |-> outcome = "error",
     value  |-> IF outcome = "ok" THEN Items(query, seq, num) ELSE <<>>]

\* what google_news_snippets returns once the service has answered
\* (lines 22-35): the items, [] when the response has none, [] on an exception
search_returns(outcome, query, seq, num) ==
    [raised |-> FALSE,
     value  |-> CASE outcome = "ok"    -> Items(query, seq, num)
                  [] outcome = "empty" -> <<>>
                  [] outcome = "error" -> <<>>]

\* a mutant of openai_skips: the credential is not looked at
openai_never_skips == FALSE

\* openai_complete returns the placeholder without calling (lines 38-39)
openai_skips == OPENAI_API_KEY = ""

\* what openai_complete returns once the endpoint has answered (lines 40-53)
completion_returns(outcome) ==
    [raised |-> FALSE,
     value  |-> IF outcome.ok THEN outcome.text
                ELSE "(AI error: " \o outcome.text \o ")"]

\* user_payload (lines 136-146)
UserPayload ==
    [scoring |-> scoring, risk_tolerance |-> risk_tolerance, week |-> week,
     starters |-> starters, bench |-> bench, free_agents |-> free_agents,
     trade_targets |-> trade_targets, notes |-> notes,
     google_snippets |-> snippets]

\* export (lines 170-175)
Export(t) ==
    [timestamp |-> t,
     settings |-> [scoring |-> scoring, risk_tolerance |-> risk_tolerance,
                   week |-> week],
     inputs |-> user_payload[1],
     analysis |-> analysis]

----------------------------------------------------------------------------
(* The page *)

config == <<OPENAI_API_KEY, GOOGLE_CSE_ID, GOOGLE_API_KEY>>
widgets == <<use_ai, use_google, starters_txt, bench_txt, fa_txt,
             trade_targets_txt, notes>>
lists == <<starters, bench, free_agents, trade_targets>>
world == <<searchLog, resultLog, netLog, lastOutcome, faults,
           completionIssued, completionLog>>

\* the script has ended and the page shows more than the form
Settled == {"error", "results", "crashed"}

\* a script run starts: nothing of an earlier run is kept, no call was made
FreshRun ==
    /\ idx' = 0
    /\ snippets' = <<>>
    /\ user_payload' = <<>>
    /\ analysis' = NoText
    /\ results_shown' = NoText
    /\ export' = <<>>
    /\ searchLog' = <<>>
    /\ resultLog' = <<>>
    /\ netLog' = <<>>
    /\ lastOutcome' = <<>>
    /\ faults' = 0
    /\ completionIssued' = 0
    /\ completionLog' = <<>>

\* a widget changed: the script reruns with the button not pressed and
\* the page shows the form only
Reset ==
    /\ pc' = "idle"
    /\ starters' = <<>>
    /\ bench' = <<>>
    /\ free_agents' = <<>>
    /\ trade_targets' = <<>>
    /\ names_for_news' = <<>>
    /\ error_shown' = NoText
    /\ FreshRun

\* st.toggle("Use AI analysis (OpenAI)") (line 69)
ToggleAI ==
    /\ pc = "idle"
    /\ use_ai' = ~use_ai
    /\ Reset
    /\ UNCHANGED <<config, use_google, starters_txt, bench_txt, fa_txt,
                   trade_targets_txt, notes, parseVars>>

\* st.toggle("Pull Google news snippets") (line 70)
ToggleGoogle ==
    /\ pc = "idle"
    /\ use_google' = ~use_google
    /\ Reset
    /\ UNCHANGED <<config, use_ai, starters_txt, bench_txt, fa_txt,
                   trade_targets_txt, notes, parseVars>>

\* the starters text area (lines 81-85)
EditStarters ==
    /\ pc = "idle"
    /\ \E t \in StartersTexts \ {starters_txt} : starters_txt' = t
    /\ Reset
    /\ UNCHANGED <<config, use_ai, use_google, bench_txt, fa_txt,
                   trade_targets_txt, notes, parseVars>>

\* the bench text area (lines 87-91)
EditBench ==
    /\ pc = "idle"
    /\ \E t \in BenchTexts \ {bench_txt} : bench_txt' = t
    /\ Reset
    /\ UNCHANGED <<config, use_ai, use_google, starters_txt, fa_txt,
                   trade_targets_txt, notes, parseVars>>

\* the free agents text area (lines 96-100)
EditFreeAgents ==
    /\ pc = "idle"
    /\ \E t \in FATexts \ {fa_txt} : fa_txt' = t
    /\ Reset
    /\ UNCHANGED <<config, use_ai, use_google, starters_txt, bench_txt,
                   trade_targets_txt, notes, parseVars>>

\* the trade targets text area (lines 102-106)
EditTradeTargets ==
    /\ pc = "idle"
    /\ \E t \in TargetTexts \ {trade_targets_txt} : trade_targets_txt' = t
    /\ Reset
    /\ UNCHANGED <<config, use_ai, use_google, starters_txt, bench_txt,
                   fa_txt, notes, parseVars>>

\* the notes text area (line 108)
EditNotes ==
    /\ pc = "idle"
    /\ \E t \in NotesTexts \ {notes} : notes' = t
    /\ Reset
    /\ UNCHANGED <<config, use_ai, use_google, starters_txt, bench_txt,
                   fa_txt, trade_targets_txt, parseVars>>

\* a widget the handler does not read changes, such as the Sleeper
\* league_id (line 76): the script reruns and the page shows the form only
Rerun ==
    /\ pc \in Settled
    /\ Reset
    /\ UNCHANGED <<config, widgets, parseVars>>

----------------------------------------------------------------------------
(* The handler of the Analyze button *)

\* a mutant of no_starters: the check is missing
no_starters_unchecked(s) == FALSE

\* `if not starters` (line 116)
no_starters(s) == s = <<>>

\* the button is pressed: the lists are parsed, the starters checked and
\* the names to search selected (lines 110-124)
Analyze ==
    /\ pc = "idle"
    /\ LET s == parse_pasted_list(starters_txt)
           b == parse_pasted_list(bench_txt)
           f == parse_pasted_list(fa_txt)
           t == parse_pasted_list(trade_targets_txt)
           names == IF use_google THEN NamesForNews(s, b, t, f) ELSE <<>>
       IN  /\ starters' = s
           /\ bench' = b
           /\ free_agents' = f
           /\ trade_targets' = t
           /\ IF no_starters(s)
              THEN /\ error_shown' = StartersError
                   /\ names_for_news' = <<>>
                   /\ pc' = "error"
              ELSE /\ error_shown' = NoText
                   /\ names_for_news' = names
                   /\ pc' = IF names # <<>> THEN "news" ELSE "prompt"
    /\ FreshRun
    /\ UNCHANGED <<config, widgets, parseVars>>

\* the name of the loop's current iteration (line 125)
CurrentName == names_for_news[idx + 1]

\* snippets[name] = result, then the next iteration or the end of the loop
\* (lines 125-128)
Store(name, result) ==
    /\ snippets' = Put(snippets, name, result)
    /\ resultLog' = Append(resultLog, result)
    /\ idx' = idx + 1
    /\ pc' = IF idx + 1 < Len(names_for_news) THEN "news" ELSE "prompt"

\* an iteration whose google_news_snippets returns [] at once (lines 20-21)
NewsNoCall ==
    /\ pc = "news"
    /\ search_skips(CurrentName)
    /\ searchLog' = Append(searchLog, CurrentName)
    /\ Store(CurrentName, <<>>)
    /\ UNCHANGED <<config, widgets, lists, names_for_news, user_payload,
                   analysis, error_shown, results_shown, export, netLog,
                   lastOutcome, faults, completionIssued,
                   completionLog, parseVars>>

\* an iteration whose google_news_snippets calls the service and blocks
\* until it has answered (lines 23-35), then the loop goes on (lines
\* 126-128)
NewsCall ==
    /\ pc = "news"
    /\ ~search_skips(CurrentName)
    /\ searchLog' = Append(searchLog, CurrentName)
    /\ netLog' = Append(netLog, CurrentName)
    /\ \E o \in SearchOutcomes :
          /\ o # "ok" => faults < MaxFaults
          /\ faults' = IF o = "ok" THEN faults ELSE faults + 1
          /\ lastOutcome' = <<[name |-> CurrentName, outcome |-> o]>>
          /\ LET r == search_returns(o, CurrentName, Len(netLog) + 1, SnippetNum)
             IN  IF r.raised
                 THEN /\ pc' = "crashed"
                      /\ UNCHANGED <<snippets, resultLog, idx>>
                 ELSE Store(CurrentName, r.value)
    /\ UNCHANGED <<config, widgets, lists, names_for_news, user_payload,
                   analysis, error_shown, results_shown, export,
                   completionIssued, completionLog, parseVars>>

\* the prompt and its payload are built (lines 130-157)
Assemble ==
    /\ pc = "prompt"
    /\ user_payload' = <<UserPayload>>
    /\ pc' = "complete"
    /\ UNCHANGED <<config, widgets, lists, names_for_news, idx, snippets,
                   analysis, error_shown, results_shown, export, world,
                   parseVars>>

\* a mutant of CompleteManual: openai_complete is called whatever the toggle
complete_ignoring_toggle ==
    /\ pc = "complete"
    /\ ~use_ai
    /\ IF openai_skips
       THEN /\ analysis' = DisabledPlaceholder
            /\ pc' = "render"
            /\ UNCHANGED completionIssued
       ELSE /\ completionIssued' = completionIssued + 1
            /\ pc' = "ai_wait"
            /\ UNCHANGED analysis
    /\ UNCHANGED <<config, widgets, lists, names_for_news, idx, snippets,
                   user_payload, error_shown, results_shown, export,
                   searchLog, resultLog, netLog, lastOutcome,
                   faults, completionLog, parseVars>>

\* AI analysis is switched off: the manual template (lines 162-164)
CompleteManual ==
    /\ pc = "complete"
    /\ ~use_ai
    /\ analysis' = ManualTemplate
    /\ pc' = "render"
    /\ UNCHANGED <<config, widgets, lists, names_for_news, idx, snippets,
                   user_payload, error_shown, results_shown, export, world,
                   parseVars>>

\* openai_complete without a credential: the placeholder (lines 159-161, 38-39)
CompleteDisabled ==
    /\ pc = "complete"
    /\ use_ai
    /\ openai_skips
    /\ analysis' = DisabledPlaceholder
    /\ pc' = "render"
    /\ UNCHANGED <<config, widgets, lists, names_for_news, idx, snippets,
                   user_payload, error_shown, results_shown, export, world,
                   parseVars>>

\* openai_complete calls the completion endpoint (lines 159-161, 40-50)
CompletionIssue ==
    /\ pc = "complete"
    /\ use_ai
    /\ ~openai_skips
    /\ completionIssued' = completionIssued + 1
    /\ pc' = "ai_wait"
    /\ UNCHANGED <<config, widgets, lists, names_for_news, idx, snippets,
                   user_payload, analysis, error_shown, results_shown, export,
                   searchLog, resultLog, netLog, lastOutcome,
                   faults, completionLog, parseVars>>

\* a mutant of CompletionReturn: a failed completion is requested again
completion_return_retrying ==
    /\ pc = "ai_wait"
    /\ \E o \in AIOutcomes :
          /\ completionLog' = Append(completionLog, o)
          /\ IF o.ok
             THEN /\ pc' = "render"
                  /\ analysis' = o.text
                  /\ UNCHANGED completionIssued
             ELSE /\ pc' = "ai_wait"
                  /\ completionIssued' = completionIssued + 1
                  /\ UNCHANGED analysis
    /\ UNCHANGED <<config, widgets, lists, names_for_news, idx, snippets,
                   user_payload, error_shown, results_shown, export,
                   searchLog, resultLog, netLog, lastOutcome, faults,
                   parseVars>>

\* the endpoint answers and openai_complete returns (lines 51-53)
CompletionReturn ==
    /\ pc = "ai_wait"
    /\ \E o \in AIOutcomes :
          /\ completionLog' = Append(completionLog, o)
          /\ LET r == completion_returns(o)
             IN  IF r.raised
                 THEN pc' = "crashed" /\ UNCHANGED analysis
                 ELSE pc' = "render" /\ analysis' = r.value
    /\ UNCHANGED <<config, widgets, lists, names_for_news, idx, snippets,
                   user_payload, error_shown, results_shown, export,
                   searchLog, resultLog, netLog, lastOutcome,
                   faults, completionIssued, parseVars>>

\* the results are written and the report offered (lines 166-181)
Render ==
    /\ pc = "render"
    /\ results_shown' = analysis
    /\ \E t \in Timestamps : export' = <<Export(t)>>
    /\ pc' = "results"
    /\ UNCHANGED <<config, widgets, lists, names_for_news, idx, snippets,
                   user_payload, analysis, error_shown, world, parseVars>>

\* the steps the script takes by itself once the button was pressed
HandlerStep ==
    \/ NewsNoCall
    \/ NewsCall
    \/ Assemble
    \/ CompleteManual
    \/ CompleteDisabled
    \/ CompletionIssue
    \/ CompletionReturn
    \/ Render

----------------------------------------------------------------------------
(* The parser on its own *)

Alphabet == {"a", "b", " ", ",", ";", "\n", "\r"}

\* every text of at most n characters
Texts(n) == UNION {[1..k -> Alphabet] : k \in 0..n}

\* parse_pasted_list(txt)
ParseText ==
    /\ ppc = "input"
    /\ parsed' = parse_pasted_list(txt)
    /\ ppc' = "parsed"
    /\ UNCHANGED <<appVars, txt, rejoined, reparsed>>

\* parse_pasted_list(",".join(parsed))
RejoinAndParse ==
    /\ ppc = "parsed"
    /\ rejoined' = join(parsed, ",")
    /\ reparsed' = parse_pasted_list(join(parsed, ","))
    /\ ppc' = "rejoined"
    /\ UNCHANGED <<appVars, txt, parsed>>

----------------------------------------------------------------------------
(* Specifications *)

\* the page right after startup: the toggles default to the credentials
\* being set (lines 69-70), the text areas are empty
AppStart(o, c, g) ==
    /\ OPENAI_API_KEY = o
    /\ GOOGLE_CSE_ID = c
    /\ GOOGLE_API_KEY = g
    /\ use_ai = (o # "")
    /\ use_google = (c # "" /\ g # "")
    /\ starters_txt = <<>>
    /\ bench_txt = <<>>
    /\ fa_txt = <<>>
    /\ trade_targets_txt = <<>>
    /\ notes = <<>>
    /\ pc = "idle"
    /\ starters = <<>>
    /\ bench = <<>>
    /\ free_agents = <<>>
    /\ trade_targets = <<>>
    /\ names_for_news = <<>>
    /\ idx = 0
    /\ snippets = <<>>
    /\ user_payload = <<>>
    /\ analysis = NoText
    /\ error_shown = NoText
    /\ results_shown = NoText
    /\ export = <<>>
    /\ searchLog = <<>>
    /\ resultLog = <<>>
    /\ netLog = <<>>
    /\ lastOutcome = <<>>
    /\ faults = 0
    /\ completionIssued = 0
    /\ completionLog = <<>>

ParserUnused ==
    /\ txt = <<>>
    /\ parsed = <<>>
    /\ rejoined = <<>>
    /\ reparsed = <<>>
    /\ ppc = "unused"

Init ==
    /\ \E o \in Credentials, c \in Credentials, g \in Credentials :
          AppStart(o, c, g)
    /\ ParserUnused

Next ==
    \/ ToggleAI
    \/ ToggleGoogle
    \/ EditStarters
    \/ EditBench
    \/ EditFreeAgents
    \/ EditTradeTargets
    \/ EditNotes
    \/ Rerun
    \/ Analyze
    \/ NewsNoCall
    \/ NewsCall
    \/ Assemble
    \/ CompleteManual
    \/ CompleteDisabled
    \/ CompletionIssue
    \/ CompletionReturn
    \/ Render

Spec == Init /\ [][Next]_vars

ParseInit ==
    /\ AppStart("", "", "")
    /\ txt \in Texts(MaxLen)
    /\ parsed = <<>>
    /\ rejoined = <<>>
    /\ reparsed = <<>>
    /\ ppc = "input"

ParseNext ==
    \/ ParseText
    \/ RejoinAndParse

ParseSpec == ParseInit /\ [][ParseNext]_vars

----------------------------------------------------------------------------
(* Properties *)

Range(s) == {s[i] : i \in 1..Len(s)}

\* position of the last occurrence of n in s
LastPos(s, n) ==
    CHOOSE i \in 1..Len(s) : s[i] = n /\ \A j \in (i + 1)..Len(s) : s[j] # n

\* number of occurrences of n in s
Count(s, n) == Cardinality({i \in 1..Len(s) : s[i] = n})

SearchCredentialsAbsent == GOOGLE_CSE_ID = "" \/ GOOGLE_API_KEY = ""

\* the handler is past the starters check
PastCheck == pc \in {"news", "prompt", "complete", "ai_wait", "render", "results"}

\* the handler is past the news loop
PastLoop == pc \in {"prompt", "complete", "ai_wait", "render", "results"}

\* the elements occur in the text one after the other, from position from on
RECURSIVE OccursInOrder(_, _, _)
OccursInOrder(elems, text, from) ==
    IF elems = <<>> THEN TRUE
    ELSE LET e == Head(elems)
             P == {q \in from..(Len(text) - Len(e) + 1) :
                       SubSeq(text, q, q + Len(e) - 1) = e}
         IN  /\ P # {}
             /\ LET first == CHOOSE q \in P : \A r \in P : q <= r
                IN  OccursInOrder(Tail(elems), text, first + Len(e))

\* what each starters text of the model parses to
ParsedStarters == [t \in StartersTexts |-> parse_pasted_list(t)]

\* C1: once the button was pressed on a starters text that parses to the
\* empty list, the run is in the error state, whatever the other inputs,
\* toggles and credentials: no search call, no completion call, no payload,
\* no results and no report.
C1_EmptyStartersHalt ==
    (pc # "idle" /\ ParsedStarters[starters_txt] = <<>>) =>
        /\ pc = "error"
        /\ error_shown = StartersError
        /\ searchLog = <<>>
        /\ netLog = <<>>
        /\ completionIssued = 0
        /\ completionLog = <<>>
        /\ user_payload = <<>>
        /\ results_shown = NoText
        /\ export = <<>>

C1_Witness ==
    /\ pc = "error"
    /\ starters_txt = <<" ", ",", ";", "\n", " ">>
    /\ bench_txt # <<>>
    /\ fa_txt # <<>>
    /\ notes # <<>>
    /\ use_google
    /\ use_ai
    /\ OPENAI_API_KEY # ""
    /\ ~SearchCredentialsAbsent

\* C2 as stated: without search credentials the snippet map of the payload
\* and of the report has no entries and no search call is made, also with
\* the news toggle switched on.
C2_Original ==
    SearchCredentialsAbsent =>
        /\ netLog = <<>>
        /\ DOMAIN snippets = {}
        /\ user_payload # <<>> => DOMAIN user_payload[1].google_snippets = {}
        /\ export # <<>> => DOMAIN export[1].inputs.google_snippets = {}

\* C2 as amended: without search credentials no search call is made and the
\* snippet map of the payload and of the report holds no snippet: it has no
\* entries when the news toggle is off, and when the toggle is on it has an
\* entry for each selected name, every one mapped to the empty list.
C2_NoCredentialsNoSnippets ==
    SearchCredentialsAbsent =>
        /\ netLog = <<>>
        /\ \A n \in DOMAIN snippets : snippets[n] = <<>>
        /\ ~use_google => DOMAIN snippets = {}
        /\ (use_google /\ PastLoop) =>
              DOMAIN snippets = Range(names_for_news)
        /\ user_payload # <<>> =>
              /\ DOMAIN user_payload[1].google_snippets = DOMAIN snippets
              /\ \A n \in DOMAIN snippets :
                    user_payload[1].google_snippets[n] = <<>>
        /\ export # <<>> =>
              /\ DOMAIN export[1].inputs.google_snippets = DOMAIN snippets
              /\ \A n \in DOMAIN snippets :
                    export[1].inputs.google_snippets[n] = <<>>

C2_Witness ==
    /\ SearchCredentialsAbsent
    /\ GOOGLE_CSE_ID # GOOGLE_API_KEY
    /\ use_google
    /\ pc = "results"
    /\ Cardinality(DOMAIN export[1].inputs.google_snippets) = 25

\* C3 as stated: without the completion credential the analysis displayed
\* and exported is the completion client's disabled-feature placeholder,
\* whatever the AI toggle, and no completion call is made.
C3_Original ==
    (OPENAI_API_KEY = "" /\ pc = "results") =>
        /\ results_shown = DisabledPlaceholder
        /\ export[1].analysis = DisabledPlaceholder
        /\ completionIssued = 0

\* C3 as amended: without the completion credential no completion call is
\* made, and the analysis displayed and exported is the disabled-feature
\* placeholder when the AI toggle is on and the manual template when it is
\* off.
C3_NoKeyPlaceholder ==
    OPENAI_API_KEY = "" =>
        /\ completionIssued = 0
        /\ completionLog = <<>>
        /\ pc = "results" =>
              /\ results_shown =
                    IF use_ai THEN DisabledPlaceholder ELSE ManualTemplate
              /\ export[1].analysis = results_shown

C3_Witness ==
    /\ OPENAI_API_KEY = ""
    /\ use_ai
    /\ pc = "results"
    /\ results_shown = DisabledPlaceholder
    /\ export[1].analysis = DisabledPlaceholder

\* C4: in one request at most 25 search calls are issued, at most 25
\* distinct names are searched and the snippet map has at most 25 entries,
\* however many names the four lists hold.
C4_AtMost25Searches ==
    /\ Len(netLog) <= 25
    /\ Len(searchLog) <= 25
    /\ Cardinality(Range(netLog)) <= 25
    /\ Cardinality(DOMAIN snippets) <= 25

C4_Witness ==
    /\ Len(starters) + Len(bench) + Len(trade_targets) + Len(free_agents) >= 30
    /\ pc = "results"
    /\ Len(netLog) = 25
    /\ Cardinality(Range(netLog)) = 25
    /\ Cardinality(DOMAIN snippets) = 25

\* the handler is between the starters check and the results
Running == pc \in {"news", "prompt", "complete", "ai_wait", "render"}

\* the steps the handler has left at most: six per name still to search,
\* then one per position after the loop
StepsLeft ==
    6 * (Len(names_for_news) - idx)
        + CASE pc = "news"     -> 5
            [] pc = "prompt"   -> 4
            [] pc = "complete" -> 3
            [] pc = "ai_wait"  -> 2
            [] pc = "render"   -> 1
            [] OTHER           -> 0

\* C5: an exception of either service is caught where the call is made: the
\* run never crashes; a failed search leaves the empty list for its name and
\* the loop goes on with the next name; a failed completion leaves the
\* placeholder embedding the error; and a request past the starters check
\* reaches the results with the report: while it is running a step of the
\* handler is always possible, every step brings the end nearer, and the
\* handler ends nowhere but at the results.
C5_FailuresAbsorbed ==
    /\ [](pc # "crashed")
    /\ []((lastOutcome # <<>> /\ lastOutcome[1].outcome = "error") =>
             /\ resultLog[Len(netLog)] = <<>>
             /\ searchLog[Len(netLog)] = lastOutcome[1].name
             /\ snippets[lastOutcome[1].name] = <<>>
             /\ idx = Len(netLog)
             /\ idx < Len(names_for_news) => pc = "news")
    /\ []((completionLog # <<>> /\ ~completionLog[1].ok) =>
             /\ analysis = "(AI error: " \o completionLog[1].text \o ")"
             /\ pc \in {"render", "results"})
    /\ [](Running => ENABLED HandlerStep)
    /\ [][HandlerStep => StepsLeft' < StepsLeft /\ StepsLeft' >= 0]_vars
    /\ []((PastCheck /\ ~Running) =>
             /\ pc = "results"
             /\ results_shown = analysis
             /\ export # <<>>
             /\ export[1].analysis = analysis)

C5_Witness ==
    /\ pc = "results"
    /\ Len(netLog) = 25
    /\ lastOutcome[1].outcome = "error"
    /\ completionLog # <<>>
    /\ ~completionLog[1].ok
    /\ export # <<>>

\* C6: on every text the parser returns a sequence (every step it takes is
\* total on texts); no element of the result is empty, every element is
\* trimmed, and the elements occur in the text in the order of the result.
C6_ParserClean ==
    ppc # "input" =>
        /\ parsed \in Seq(Seq(Alphabet))
        /\ \A i \in 1..Len(parsed) :
              /\ parsed[i] # <<>>
              /\ parsed[i][1] \notin {" ", "\t", "\n", "\r"}
              /\ parsed[i][Len(parsed[i])] \notin {" ", "\t", "\n", "\r"}
        /\ OccursInOrder(parsed, txt, 1)

C6_Witness ==
    /\ ppc = "parsed"
    /\ txt = <<"b", ";", ",", "a">>
    /\ parsed = << <<"b">>, <<"a">> >>

\* C7: parsing the comma-joined result of a parse yields that result again.
C7_ParseRejoinIdempotent ==
    ppc = "rejoined" => reparsed = parsed

C7_Witness ==
    /\ ppc = "rejoined"
    /\ Len(parsed) = 2
    /\ rejoined # txt
    /\ reparsed = parsed

\* C8: with both toggles off no call is made to either service, and a
\* request with starters ends with the manual template as analysis, which
\* differs from the disabled-feature placeholder; the report holds a
\* timestamp, the parsed starters in input order, an empty snippet map and
\* the manual template under "analysis".
C8_BothDisabledManualTemplate ==
    (~use_google /\ ~use_ai) =>
        /\ netLog = <<>>
        /\ searchLog = <<>>
        /\ completionIssued = 0
        /\ pc = "results" =>
              /\ analysis = ManualTemplate
              /\ results_shown = ManualTemplate
              /\ ManualTemplate # DisabledPlaceholder
              /\ export[1].timestamp \in Nat
              /\ export[1].inputs.starters = ParsedStarters[starters_txt]
              /\ export[1].inputs.starters # <<>>
              /\ OccursInOrder(export[1].inputs.starters, starters_txt, 1)
              /\ DOMAIN export[1].inputs.google_snippets = {}
              /\ export[1].analysis = ManualTemplate

C8_Witness ==
    /\ ~use_google
    /\ ~use_ai
    /\ OPENAI_API_KEY # ""
    /\ ~SearchCredentialsAbsent
    /\ pc = "results"
    /\ starters_txt = <<" ", "q", "b", " ", "b", "o", "\n">>
    /\ export[1].inputs.starters = << <<"q", "b", " ", "b", "o">> >>

\* C9: the calls of one request form one sequential chain without retries:
\* the invocations so far are the first idx selected names, one per
\* position; a completion call is issued only when every position has been
\* searched and has its result, at most once, and nothing is searched after
\* it; the report holds the analysis the completion step left.
C9_SequentialChain ==
    /\ searchLog = SubSeq(names_for_news, 1, idx)
    /\ Len(resultLog) = Len(searchLog)
    /\ netLog \in {<<>>, searchLog}
    /\ completionIssued <= 1
    /\ Len(completionLog) <= completionIssued
    /\ (completionIssued >= 1 \/ PastLoop) =>
          /\ idx = Len(names_for_news)
          /\ searchLog = names_for_news
    /\ pc \in {"news", "prompt", "complete"} =>
          completionIssued = 0 /\ analysis = NoText
    /\ export # <<>> =>
          /\ pc = "results"
          /\ analysis # NoText
          /\ export[1].analysis = analysis
          /\ Len(completionLog) = completionIssued

C9_Witness ==
    /\ pc = "results"
    /\ completionIssued = 1
    /\ Len(netLog) = 25
    /\ faults = 1
    /\ export # <<>>

\* C10: with the news toggle on, the names searched are the first 25
\* positions of starters, bench, trade targets and the first 10 free agents,
\* in that order; a name is searched once per occurrence and its entry
\* holds the result of the last one; the keys of the snippet map are the
\* names of those positions; a free agent past the tenth is not searched as
\* such.
C10_SearchSelection ==
    (use_google /\ PastCheck) =>
        LET all == starters \o bench \o trade_targets
                       \o SubSeq(free_agents, 1, Min(10, Len(free_agents)))
            sel == SubSeq(all, 1, Min(25, Len(all)))
        IN  /\ names_for_news = sel
            /\ searchLog = SubSeq(sel, 1, idx)
            /\ ~SearchCredentialsAbsent => netLog = searchLog
            /\ idx > 0 => snippets[searchLog[idx]] = resultLog[idx]
            /\ PastLoop =>
                  /\ searchLog = sel
                  /\ DOMAIN snippets = Range(sel)
                  /\ \A n \in Range(sel) :
                        /\ Count(searchLog, n) = Count(sel, n)
                        /\ snippets[n] = resultLog[LastPos(searchLog, n)]
                  /\ \A j \in 11..Len(free_agents) :
                        free_agents[j] \notin Range(sel) =>
                            free_agents[j] \notin DOMAIN snippets

C10_Witness ==
    /\ use_google
    /\ ~SearchCredentialsAbsent
    /\ pc = "results"
    /\ Len(free_agents) > 10
    /\ Len(starters) + Len(bench) + Len(trade_targets) < 25
    /\ Len(searchLog) = 25
    /\ \E n \in DOMAIN snippets :
          /\ Count(searchLog, n) = 2
          /\ snippets[n] # <<>>
          /\ \E i \in 1..Len(searchLog) :
                searchLog[i] = n /\ resultLog[i] # snippets[n]

====
